---- MODULE Spec2Model ----
(***************************************************************************)
(* A model of data_validation/__main__.py: the command dispatcher of the   *)
(* data validation tool.  One behaviour is one invocation of main() (and,  *)
(* after a `run --config-file`, the following `run-config` on the file it  *)
(* wrote).  The collaborators that are imported by the module but are not  *)
(* part of it (cli_tools, ConfigManager, DataValidation, the similarity    *)
(* metric) are modelled from their documented contract.                    *)
(***************************************************************************)
EXTENDS Integers, Sequences, FiniteSets, TLC

\* ------------------------------------------------------------------ bounds
\* Longest --tables-list of a `run` invocation.
MaxTables == 2
\* Largest number of validation blocks of a hand-written YAML document.
MaxBlocks == 2

\* ------------------------------------------------------- generic helpers
SeqsUpTo(S, n) == UNION {[1..m -> S] : m \in 0..n}

Range(s) == {s[i] : i \in DOMAIN s}

\* Python's d[key] = value on a dictionary d (a function on its keys).
DictSet(d, key, value) == (key :> value) @@ d

\* Python's dictionary without some keys.
DictWithout(d, keys) == [x \in (DOMAIN d) \ keys |-> d[x]]

\* ----------------------------------------------- argument values (argparse)
\* An optional string argument that the code hands to json.loads: it is
\* absent (None), the literal "*", or a JSON text that parses (ok) to val or
\* does not parse.
None == [tag |-> "none", ok |-> TRUE, val |-> <<>>]
Star == [tag |-> "star", ok |-> TRUE, val |-> <<>>]
Json(v) == [tag |-> "json", ok |-> TRUE, val |-> v]
BadJson == [tag |-> "json", ok |-> FALSE, val |-> <<>>]

\* Python truthiness of such an argument (`if args.count:`).
Truthy(a) == a.tag # "none"

\* json.loads(a): succeeds iff the text is JSON.
json_loads_ok(a) == a.tag = "json" /\ a.ok
json_loads(a) == a.val

\* ------------------------------------------------------------ connections
\* Connection references a user can give, and the descriptors of the store.
ConnRefs == {"A", "B", "Z"}
Descriptor(n, kind) == [conn_id |-> n, kind |-> kind]
NoConn == Descriptor("-", "-")
\* The connection stores an invocation can find: the names it holds.
Stores == {{}, {"A", "B"}}
StoreOf(names) == [n \in names |-> Descriptor(n, "BigQuery")]

\* cli_tools.get_connection(ref): the descriptor stored under ref; fails for
\* an unknown reference.
get_connection_ok(st, ref) == ref \in DOMAIN st
get_connection(st, ref) == st[ref]

\* A client handle: the descriptor it was acquired from and the ordinal of
\* the acquisition that produced it.
Client(conn, n) == [conn |-> conn, handle |-> n]
NoClient == Client(NoConn, 0)

\* ------------------------------------------------------ names and catalogs
\* Database and table names are character strings; a key is built from them
\* by formatting, so names are modelled as sequences of characters.
Sep == <<"_", "_">>
nS == <<"s">>
nA == <<"a">>
nC == <<"c">>
nT1 == <<"t", "1">>
nT2 == <<"t", "2">>
nAB == nA \o Sep \o <<"b">>
nBC == <<"b">> \o Sep \o nC
nOrphan == <<"o", "r", "p">>
nOther == <<"o", "t", "h">>

Db(name, tables) == [database |-> name, tables |-> tables]

\* The catalogs a client can expose: the databases in list_databases()
\* order, each with its tables in list_tables() order.  Every database and
\* every table of a database is listed once.
Catalogs ==
    { <<>>,
      <<Db(nS, <<nT1>>)>>,
      <<Db(nS, <<nT1, nT2>>)>>,
      <<Db(nS, <<nOrphan>>)>>,
      <<Db(nS, <<nOther>>), Db(nA, <<nS>>)>>,
      <<Db(nA, <<nBC>>), Db(nAB, <<nC>>)>>,
      <<Db(nA, <<nA>>)>> }

\* client.list_databases() / client.list_tables(database=...), flattened to
\* the (database, table) pairs in the order the nested loops visit them.
RECURSIVE CatalogPairs(_)
CatalogPairs(cat) ==
    IF cat = <<>> THEN <<>>
    ELSE [i \in 1..Len(cat[1].tables) |-> <<cat[1].database, cat[1].tables[i]>>]
         \o CatalogPairs(Tail(cat))

\* --------------------------------------------------- ordered dictionaries
\* A Python dict keeps insertion order: a sequence of entries with distinct
\* keys.  Assigning to a key that is present replaces its value in place.
Keys(m) == [i \in DOMAIN m |-> m[i].key]
HasKey(m, key) == \E i \in DOMAIN m : m[i].key = key
MapGet(m, key) == m[CHOOSE i \in DOMAIN m : m[i].key = key].obj
MapPut(m, key, obj) ==
    IF HasKey(m, key)
    THEN [i \in DOMAIN m |-> IF m[i].key = key THEN [key |-> key, obj |-> obj] ELSE m[i]]
    ELSE Append(m, [key |-> key, obj |-> obj])

\* ------------------------------------------------ Table Catalog Enumerator
table_key(database_name, table_name) == database_name \o Sep \o table_name

table_obj(database_name, table_name) ==
    [schema_name |-> database_name, table_name |-> table_name]

RECURSIVE FillTableMap(_, _)
FillTableMap(table_map, pairs) ==
    IF pairs = <<>> THEN table_map
    ELSE FillTableMap(
            MapPut(table_map,
                   table_key(pairs[1][1], pairs[1][2]),
                   table_obj(pairs[1][1], pairs[1][2])),
            Tail(pairs))

get_all_tables_from_client(cat) == FillTableMap(<<>>, CatalogPairs(cat))

\* ------------------------------------------------------------ Table Matcher
\* The similarity of two keys, in percent: the share of positions at which
\* they agree, normalised by the longer key (100 exactly for equal keys).
Max(a, b) == IF a >= b THEN a ELSE b
Min(a, b) == IF a <= b THEN a ELSE b
Score(a, b) ==
    IF Max(Len(a), Len(b)) = 0 THEN 100
    ELSE (100 * Cardinality({i \in 1..Min(Len(a), Len(b)) : a[i] = b[i]}))
         \div Max(Len(a), Len(b))

NoMatch == [found |-> FALSE, key |-> <<>>, score |-> -1]

\* jellyfish_distance.extract_closest_match: the target key of highest score
\* among those reaching the cutoff, the first such key on a tie; None when
\* no key reaches the cutoff.
RECURSIVE ClosestFrom(_, _, _, _)
ClosestFrom(search_key, target_list, cutoff, best) ==
    IF target_list = <<>> THEN best
    ELSE LET sc == Score(search_key, target_list[1])
             nb == IF sc >= cutoff /\ sc > best.score
                   THEN [found |-> TRUE, key |-> target_list[1], score |-> sc]
                   ELSE best
         IN ClosestFrom(search_key, Tail(target_list), cutoff, nb)

extract_closest_match(search_key, target_list, cutoff) ==
    ClosestFrom(search_key, target_list, cutoff, NoMatch)

\* The cutoff _compare_match_tables passes to the metric.
score_cutoff == 0

\* One iteration of the loop of _compare_match_tables.  Indexing the target
\* map with None (no closest key) raises KeyError.
match_ok(source_key, target_table_map) ==
    extract_closest_match(source_key, Keys(target_table_map), score_cutoff).found

match_target_key(source_key, target_table_map) ==
    extract_closest_match(source_key, Keys(target_table_map), score_cutoff).key

table_config(source_table_map, target_table_map, source_key) ==
    LET target_key == match_target_key(source_key, target_table_map) IN
    [schema_name |-> MapGet(source_table_map, source_key).schema_name,
     table_name |-> MapGet(source_table_map, source_key).schema_name,
     target_schema_name |-> MapGet(target_table_map, target_key).schema_name,
     target_table_name |-> MapGet(target_table_map, target_key).schema_name]

\* _compare_match_tables: raised is TRUE when an iteration raised (the list
\* built so far is then lost with the frame); matched keeps, next to each
\* emitted table_config, the (source key, target key) pair it was made from.
RECURSIVE CompareFrom(_, _, _, _)
CompareFrom(source_table_map, target_table_map, i, acc) ==
    IF i > Len(source_table_map) THEN acc
    ELSE LET source_key == source_table_map[i].key IN
         IF ~match_ok(source_key, target_table_map)
         THEN [raised |-> TRUE, table_configs |-> <<>>, matched |-> <<>>]
         ELSE CompareFrom(source_table_map, target_table_map, i + 1,
                [raised |-> FALSE,
                 table_configs |-> Append(acc.table_configs,
                     table_config(source_table_map, target_table_map, source_key)),
                 matched |-> Append(acc.matched,
                     <<source_key, match_target_key(source_key, target_table_map)>>)])

compare_match_tables(source_table_map, target_table_map) ==
    CompareFrom(source_table_map, target_table_map, 1,
                [raised |-> FALSE, table_configs |-> <<>>, matched |-> <<>>])

\* ---------------------------------------------------------- ConfigManager
\* The table objects of a --tables-list: two tables, and an object without
\* the table name, from which no configuration can be built.
TableObjs ==
    { [schema_name |-> "s", table_name |-> "t1"],
      [schema_name |-> "s", table_name |-> "t2"],
      [schema_name |-> "s"] }

\* The declared type of the columns of the tables.
ColumnType == [c1 |-> "int64", c2 |-> "string"]

AggregateSpec(kind, column, type_filter) ==
    [kind |-> kind, column |-> column, type_filter |-> type_filter]

\* ConfigManager.build_config_manager: the base configuration of one table,
\* bound to the connections, with no aggregate yet.
build_config_manager_ok(tbl) == "table_name" \in DOMAIN tbl

build_config_manager(config_type, src_conn, tgt_conn, src_client, tgt_client, tbl, rh_config, verbose) ==
    [config |-> [type |-> config_type,
                 source_conn |-> src_conn,
                 target_conn |-> tgt_conn,
                 schema_name |-> tbl.schema_name,
                 table_name |-> tbl.table_name,
                 aggregates |-> <<>>,
                 result_handler |-> rh_config],
     source_client |-> src_client,
     target_client |-> tgt_client,
     verbose |-> verbose]

\* ConfigManager(config, source_client, target_client, verbose): wraps the
\* configuration as given.
ConfigManager(config, src_client, tgt_client, verbose) ==
    [config |-> config,
     source_client |-> src_client,
     target_client |-> tgt_client,
     verbose |-> verbose]

\* config_manager.aggregates: the aggregate list of the configuration, empty
\* when the configuration has none.
aggregates(cm) ==
    IF "aggregates" \in DOMAIN cm.config THEN cm.config.aggregates ELSE <<>>

\* config_manager.build_config_count_aggregate(): the whole-table count.
build_config_count_aggregate == AggregateSpec("count", "*", "none")

\* config_manager.build_config_column_aggregates(kind, columns, types): one
\* whole-table spec for all columns (columns = None), else one spec per
\* listed column whose declared type passes the type filter.
build_config_column_aggregates(kind, all_columns, columns, types) ==
    IF all_columns THEN <<AggregateSpec(kind, "*", IF types = {} THEN "none" ELSE "numeric")>>
    ELSE SelectSeq([i \in DOMAIN columns |->
                       AggregateSpec(kind, columns[i],
                                     IF types = {} THEN "none" ELSE "numeric")],
                   LAMBDA a : types = {} \/ ColumnType[a.column] \in types)

append_aggregates(cm, aggs) ==
    [cm EXCEPT !.config = DictSet(cm.config, "aggregates", aggregates(cm) \o aggs)]

\* build_config_grouped_columns + append_query_groups.
append_query_groups(cm, grouped_columns) ==
    [cm EXCEPT !.config = DictSet(cm.config, "grouped_columns", grouped_columns)]

\* config_manager.get_yaml_validation_block(): the configuration without the
\* fields the document carries once at its top level.
get_yaml_validation_block(cm) ==
    DictWithout(cm.config, {"source_conn", "target_conn", "result_handler"})

\* ------------------------------------------------ Aggregate Config Assembler
\* An optional column argument parses unless it is a malformed JSON text.
col_args_ok(a) == a.tag = "star" \/ json_loads_ok(a)

get_aggregate_config_ok(args) ==
    /\ Truthy(args.count) => col_args_ok(args.count)
    /\ Truthy(args.sum) => col_args_ok(args.sum)

\* Mutant: the whole-table count is added inside the --count branch.
get_aggregate_config_no_default(args, cm) ==
    (IF Truthy(args.count)
     THEN <<build_config_count_aggregate>>
          \o build_config_column_aggregates(
                "count", args.count.tag = "star", json_loads(args.count), {})
     ELSE <<>>)
    \o (IF Truthy(args.sum)
        THEN build_config_column_aggregates(
                "sum", args.sum.tag = "star", json_loads(args.sum),
                {"int64", "float64"})
        ELSE <<>>)

get_aggregate_config(args, cm) ==
    <<build_config_count_aggregate>>
    \o (IF Truthy(args.count)
        THEN build_config_column_aggregates(
                "count", args.count.tag = "star", json_loads(args.count), {})
        ELSE <<>>)
    \o (IF Truthy(args.sum)
        THEN build_config_column_aggregates(
                "sum", args.sum.tag = "star", json_loads(args.sum),
                {"int64", "float64"})
        ELSE <<>>)

\* build_config_from_args: raises when an argument does not parse
\* (json.loads of an absent --grouped-columns raises too).
build_config_from_args_ok(args, cm) ==
    /\ get_aggregate_config_ok(args)
    /\ cm.config.type = "GroupedColumn" => json_loads_ok(args.grouped_columns)

build_config_from_args(args, cm) ==
    LET with_aggs == append_aggregates(cm, get_aggregate_config(args, cm)) IN
    IF with_aggs.config.type = "GroupedColumn"
    THEN append_query_groups(with_aggs, json_loads(args.grouped_columns))
    ELSE with_aggs

\* -------------------------------------------------------- YAML Config Codec
\* convert_config_to_yaml: raises IndexError on an empty list
\* (config_managers[0]).
convert_config_to_yaml_ok(args, config_managers) == Len(config_managers) >= 1

\* Mutant: the document's source is written from the target argument.
convert_config_to_yaml_target_twice(args, config_managers) ==
    [source |-> args.target_conn,
     target |-> args.target_conn,
     result_handler |-> config_managers[1].config.result_handler,
     validations |-> [i \in DOMAIN config_managers |->
                         get_yaml_validation_block(config_managers[i])]]

convert_config_to_yaml(args, config_managers) ==
    [source |-> args.source_conn,
     target |-> args.target_conn,
     result_handler |-> config_managers[1].config.result_handler,
     validations |-> [i \in DOMAIN config_managers |->
                         get_yaml_validation_block(config_managers[i])]]

\* The body of the loop of build_config_managers_from_yaml for one block.
yaml_block_ok(yaml_configs) == "result_handler" \in DOMAIN yaml_configs

yaml_config_manager(yaml_configs, block, src_conn, tgt_conn, src_client, tgt_client, verbose) ==
    ConfigManager(
        DictSet(DictSet(DictSet(block, "source_conn", src_conn),
                        "target_conn", tgt_conn),
                "result_handler", yaml_configs.result_handler),
        src_client, tgt_client, verbose)

\* ------------------------------------------------------------------ state
VARIABLES
    pc,                     \* the position of the invocation in main()
    args,                   \* the parsed command line
    store,                  \* the connection store: name -> descriptor
    yaml_file,              \* the file at the --config-file path
    catalog,                \* connection name -> the catalog its client lists
    clients,                \* the clients acquired so far, in order
    conn,                   \* run_connections: conn
    source_conn,            \* locals of the three assembling functions
    target_conn,
    result_handler_config,
    source_client,
    target_client,
    yaml_configs,           \* build_config_managers_from_yaml: yaml_configs
    config_managers,        \* the list of config managers built so far
    executed,               \* the config managers handed to the engine, in order
    source_table_map,       \* locals of find_tables_using_string_matching
    target_table_map,
    table_configs,
    matched,                \* the key pairs the emitted table_configs come from
    encoded                 \* the config managers the file was written from

vars == <<pc, args, store, yaml_file, catalog, clients, conn, source_conn,
          target_conn, result_handler_config, source_client, target_client,
          yaml_configs, config_managers, executed, source_table_map,
          target_table_map, table_configs, matched, encoded>>

world == <<args, store, yaml_file, catalog, encoded>>
conn_locals == <<conn, source_conn, target_conn, result_handler_config>>
client_locals == <<clients, source_client, target_client>>
find_locals == <<source_table_map, target_table_map, table_configs, matched>>
run_locals == <<yaml_configs, config_managers, executed>>

\* ----------------------------------------------------------------- inputs
DefaultArgs ==
    [command |-> "", connect_cmd |-> "", connection_name |-> "",
     connection_kind |-> "", source_conn |-> "", target_conn |-> "",
     tables_list |-> None, type |-> "Column", count |-> None, sum |-> None,
     grouped_columns |-> None, result_handler_config |-> None,
     config_file |-> "", verbose |-> FALSE]

\* The (source, target) references of an invocation: two connections, one
\* connection on both sides, and an unknown reference on either side.
ConnPairs == {<<"A", "B">>, <<"A", "A">>, <<"Z", "B">>, <<"A", "Z">>}

\* --type with its --grouped-columns.
TypeArgs == {<<"Column", None>>, <<"GroupedColumn", Json(<<"c1">>)>>,
             <<"GroupedColumn", None>>}

RunArgs ==
    { [DefaultArgs EXCEPT !.command = "run",
                          !.source_conn = cp[1], !.target_conn = cp[2],
                          !.tables_list = tl,
                          !.type = ty[1], !.grouped_columns = ty[2],
                          !.count = cnt, !.sum = sm,
                          !.result_handler_config = rh,
                          !.config_file = cf] :
        cp \in ConnPairs,
        tl \in {Json(t) : t \in SeqsUpTo(TableObjs, MaxTables)} \cup {BadJson},
        ty \in TypeArgs,
        cnt \in {None, Star, Json(<<"c1", "c2">>), BadJson},
        sm \in {None, Star, Json(<<"c1", "c2">>)},
        rh \in {None, Json(<<"bq">>)},
        cf \in {"", "f"} }

RunConfigArgs ==
    { [DefaultArgs EXCEPT !.command = "run-config", !.config_file = cf] :
        cf \in {"", "f"} }

ConnectionsArgs ==
    { [DefaultArgs EXCEPT !.command = "connections", !.connect_cmd = cmd,
                          !.connection_name = n, !.connection_kind = k] :
        cmd \in {"list", "add", "remove"}, n \in {"A", "C"}, k \in {"MySQL", ""} }

FindTablesArgs ==
    { [DefaultArgs EXCEPT !.command = "find-tables",
                          !.source_conn = cp[1], !.target_conn = cp[2]] :
        cp \in ConnPairs }

OtherArgs == { [DefaultArgs EXCEPT !.command = "validate"] }

\* Hand-written validation blocks: with aggregates, with an empty aggregate
\* list, and without an aggregate list.
YamlBlocks ==
    { [type |-> "Column", schema_name |-> "s", table_name |-> "t1",
       aggregates |-> <<build_config_count_aggregate>>],
      [type |-> "Column", schema_name |-> "s", table_name |-> "t2",
       aggregates |-> <<>>],
      [type |-> "Column", schema_name |-> "s", table_name |-> "t1"] }

\* Hand-written documents: complete ones, and ones that miss a top-level key.
YamlDocs ==
    { [source |-> cp[1], target |-> cp[2], result_handler |-> "None",
       validations |-> v] :
        cp \in ConnPairs, v \in SeqsUpTo(YamlBlocks, MaxBlocks) }
    \cup { DictWithout([source |-> "A", target |-> "B", result_handler |-> "bq",
                        validations |-> <<b>>], {k}) :
            b \in YamlBlocks,
            k \in {"source", "target", "result_handler", "validations"} }

NoFile == [kind |-> "absent", doc |-> <<>>]
YamlFile(doc) == [kind |-> "doc", doc |-> doc]
YamlFiles == {NoFile, [kind |-> "garbage", doc |-> <<>>]} \cup {YamlFile(d) : d \in YamlDocs}

DefaultCatalog == [n \in {"A", "B"} |-> <<>>]

Init ==
    /\ pc = "main"
    /\ store \in {StoreOf(names) : names \in Stores}
    /\ \/ args \in RunArgs /\ yaml_file = NoFile /\ catalog = DefaultCatalog
       \/ args \in RunConfigArgs /\ yaml_file \in YamlFiles /\ catalog = DefaultCatalog
       \/ args \in ConnectionsArgs /\ yaml_file = NoFile /\ catalog = DefaultCatalog
       \/ args \in FindTablesArgs /\ yaml_file = NoFile
          /\ catalog \in [{"A", "B"} -> Catalogs]
       \/ args \in OtherArgs /\ yaml_file = NoFile /\ catalog = DefaultCatalog
    /\ clients = <<>>
    /\ conn = NoConn
    /\ source_conn = NoConn
    /\ target_conn = NoConn
    /\ result_handler_config = "None"
    /\ source_client = NoClient
    /\ target_client = NoClient
    /\ yaml_configs = <<>>
    /\ config_managers = <<>>
    /\ executed = <<>>
    /\ source_table_map = <<>>
    /\ target_table_map = <<>>
    /\ table_configs = <<>>
    /\ matched = <<>>
    /\ encoded = <<>>

\* ---------------------------------------------------------------- actions
\* An exception that nothing catches ends the invocation.
Raise == pc' = "error"

\* DataValidation.get_data_client(descriptor): a new client, or a failure.
Acquire(descriptor) == Client(descriptor, Len(clients) + 1)

\* main(): dispatch on the command.
Main ==
    /\ pc = "main"
    /\ pc' = CASE args.command = "run" -> "args_source_conn"
               [] args.command = "connections" -> "connections"
               [] args.command = "run-config" -> "yaml_config_file"
               [] args.command = "find-tables" -> "find_source_conn"
               [] OTHER -> "error"
    /\ UNCHANGED <<world, conn_locals, client_locals, run_locals, find_locals>>

\* ---- build_config_managers_from_args
ArgsSourceConn ==
    /\ pc = "args_source_conn"
    /\ IF get_connection_ok(store, args.source_conn)
       THEN /\ source_conn' = get_connection(store, args.source_conn)
            /\ pc' = "args_target_conn"
       ELSE Raise /\ UNCHANGED source_conn
    /\ UNCHANGED <<world, conn, target_conn, result_handler_config,
                   client_locals, run_locals, find_locals>>

ArgsTargetConn ==
    /\ pc = "args_target_conn"
    /\ IF get_connection_ok(store, args.target_conn)
       THEN /\ target_conn' = get_connection(store, args.target_conn)
            /\ pc' = "args_result_handler"
       ELSE Raise /\ UNCHANGED target_conn
    /\ UNCHANGED <<world, conn, source_conn, result_handler_config,
                   client_locals, run_locals, find_locals>>

ArgsResultHandler ==
    /\ pc = "args_result_handler"
    /\ IF ~Truthy(args.result_handler_config)
       THEN pc' = "args_source_client" /\ UNCHANGED result_handler_config
       ELSE IF json_loads_ok(args.result_handler_config)
       THEN /\ result_handler_config' = json_loads(args.result_handler_config)[1]
            /\ pc' = "args_source_client"
       ELSE Raise /\ UNCHANGED result_handler_config
    /\ UNCHANGED <<world, conn, source_conn, target_conn, client_locals,
                   run_locals, find_locals>>

ArgsSourceClient ==
    /\ pc = "args_source_client"
    /\ \/ /\ source_client' = Acquire(source_conn)
          /\ clients' = Append(clients, Acquire(source_conn))
          /\ pc' = "args_target_client"
       \/ Raise /\ UNCHANGED <<clients, source_client>>
    /\ UNCHANGED <<world, conn_locals, target_client, run_locals, find_locals>>

ArgsTargetClient ==
    /\ pc = "args_target_client"
    /\ \/ /\ target_client' = Acquire(target_conn)
          /\ clients' = Append(clients, Acquire(target_conn))
          /\ pc' = "args_tables_list"
       \/ Raise /\ UNCHANGED <<clients, target_client>>
    /\ UNCHANGED <<world, conn_locals, source_client, run_locals, find_locals>>

ArgsTablesList ==
    /\ pc = "args_tables_list"
    /\ IF json_loads_ok(args.tables_list) THEN pc' = "args_loop" ELSE Raise
    /\ UNCHANGED <<world, conn_locals, client_locals, run_locals, find_locals>>

\* Mutant: each config manager is executed as soon as it is built.
ArgsBuildConfigEager ==
    /\ pc = "args_loop"
    /\ Len(config_managers) < Len(json_loads(args.tables_list))
    /\ LET tbl == json_loads(args.tables_list)[Len(config_managers) + 1]
           cm == build_config_manager(args.type, source_conn, target_conn,
                                      source_client, target_client, tbl,
                                      result_handler_config, args.verbose)
       IN IF build_config_manager_ok(tbl) /\ build_config_from_args_ok(args, cm)
          THEN /\ config_managers' = Append(config_managers,
                                            build_config_from_args(args, cm))
               /\ executed' = Append(executed, build_config_from_args(args, cm))
               /\ UNCHANGED pc
          ELSE Raise /\ UNCHANGED <<config_managers, executed>>
    /\ UNCHANGED <<world, conn_locals, client_locals, yaml_configs, find_locals>>

\* Mutant: the clients are acquired again for every table.
ArgsBuildConfigAcquiring ==
    /\ pc = "args_loop"
    /\ Len(config_managers) < Len(json_loads(args.tables_list))
    /\ LET tbl == json_loads(args.tables_list)[Len(config_managers) + 1]
           sc == Client(source_conn, Len(clients) + 1)
           tc == Client(target_conn, Len(clients) + 2)
           cm == build_config_manager(args.type, source_conn, target_conn,
                                      sc, tc, tbl,
                                      result_handler_config, args.verbose)
       IN IF build_config_manager_ok(tbl) /\ build_config_from_args_ok(args, cm)
          THEN /\ config_managers' = Append(config_managers,
                                            build_config_from_args(args, cm))
               /\ clients' = clients \o <<sc, tc>>
               /\ UNCHANGED pc
          ELSE Raise /\ UNCHANGED <<config_managers, clients>>
    /\ UNCHANGED <<world, conn_locals, source_client, target_client,
                   yaml_configs, executed, find_locals>>

\* One iteration of the loop over tables_list.
ArgsBuildConfig ==
    /\ pc = "args_loop"
    /\ Len(config_managers) < Len(json_loads(args.tables_list))
    /\ LET tbl == json_loads(args.tables_list)[Len(config_managers) + 1]
           cm == build_config_manager(args.type, source_conn, target_conn,
                                      source_client, target_client, tbl,
                                      result_handler_config, args.verbose)
       IN IF build_config_manager_ok(tbl) /\ build_config_from_args_ok(args, cm)
          THEN /\ config_managers' = Append(config_managers,
                                            build_config_from_args(args, cm))
               /\ UNCHANGED pc
          ELSE Raise /\ UNCHANGED config_managers
    /\ UNCHANGED <<world, conn_locals, client_locals, yaml_configs, executed,
                   find_locals>>

\* run(): the list is built; persist it or execute it.
ArgsReturn ==
    /\ pc = "args_loop"
    /\ Len(config_managers) = Len(json_loads(args.tables_list))
    /\ pc' = IF args.config_file # "" THEN "store_yaml" ELSE "run_validations"
    /\ UNCHANGED <<world, conn_locals, client_locals, run_locals, find_locals>>

\* store_yaml_config_file: convert, dump, write.
StoreYamlConfigFile ==
    /\ pc = "store_yaml"
    /\ IF convert_config_to_yaml_ok(args, config_managers)
       THEN /\ yaml_file' = YamlFile(convert_config_to_yaml(args, config_managers))
            /\ encoded' = config_managers
            /\ pc' = "done"
       ELSE Raise /\ UNCHANGED <<yaml_file, encoded>>
    /\ UNCHANGED <<args, store, catalog, conn_locals, client_locals, run_locals,
                   find_locals>>

\* ---- run_validations / run_validation
\* Mutant: the list is walked from its end.
RunValidationReversed ==
    /\ pc = "run_validations"
    /\ Len(executed) < Len(config_managers)
    /\ executed' = Append(executed,
                          config_managers[Len(config_managers) - Len(executed)])
    /\ \/ UNCHANGED pc
       \/ Raise
    /\ UNCHANGED <<world, conn_locals, client_locals, yaml_configs,
                   config_managers, find_locals>>

\* The next config manager is handed to the engine, which returns or raises.
RunValidation ==
    /\ pc = "run_validations"
    /\ Len(executed) < Len(config_managers)
    /\ executed' = Append(executed, config_managers[Len(executed) + 1])
    /\ \/ UNCHANGED pc
       \/ Raise
    /\ UNCHANGED <<world, conn_locals, client_locals, yaml_configs,
                   config_managers, find_locals>>

RunValidationsReturn ==
    /\ pc = "run_validations"
    /\ Len(executed) = Len(config_managers)
    /\ pc' = "done"
    /\ UNCHANGED <<world, conn_locals, client_locals, run_locals, find_locals>>

\* ---- build_config_managers_from_yaml
YamlConfigFile ==
    /\ pc = "yaml_config_file"
    /\ IF args.config_file # "" THEN pc' = "yaml_load" ELSE Raise
    /\ UNCHANGED <<world, conn_locals, client_locals, run_locals, find_locals>>

YamlLoad ==
    /\ pc = "yaml_load"
    /\ IF yaml_file.kind = "doc"
       THEN yaml_configs' = yaml_file.doc /\ pc' = "yaml_source_conn"
       ELSE Raise /\ UNCHANGED yaml_configs
    /\ UNCHANGED <<world, conn_locals, client_locals, config_managers, executed,
                   find_locals>>

YamlSourceConn ==
    /\ pc = "yaml_source_conn"
    /\ IF "source" \in DOMAIN yaml_configs
          /\ get_connection_ok(store, yaml_configs.source)
       THEN /\ source_conn' = get_connection(store, yaml_configs.source)
            /\ pc' = "yaml_target_conn"
       ELSE Raise /\ UNCHANGED source_conn
    /\ UNCHANGED <<world, conn, target_conn, result_handler_config,
                   client_locals, run_locals, find_locals>>

YamlTargetConn ==
    /\ pc = "yaml_target_conn"
    /\ IF "target" \in DOMAIN yaml_configs
          /\ get_connection_ok(store, yaml_configs.target)
       THEN /\ target_conn' = get_connection(store, yaml_configs.target)
            /\ pc' = "yaml_source_client"
       ELSE Raise /\ UNCHANGED target_conn
    /\ UNCHANGED <<world, conn, source_conn, result_handler_config,
                   client_locals, run_locals, find_locals>>

YamlSourceClient ==
    /\ pc = "yaml_source_client"
    /\ \/ /\ source_client' = Acquire(source_conn)
          /\ clients' = Append(clients, Acquire(source_conn))
          /\ pc' = "yaml_target_client"
       \/ Raise /\ UNCHANGED <<clients, source_client>>
    /\ UNCHANGED <<world, conn_locals, target_client, run_locals, find_locals>>

YamlTargetClient ==
    /\ pc = "yaml_target_client"
    /\ \/ /\ target_client' = Acquire(target_conn)
          /\ clients' = Append(clients, Acquire(target_conn))
          /\ pc' = "yaml_validations"
       \/ Raise /\ UNCHANGED <<clients, target_client>>
    /\ UNCHANGED <<world, conn_locals, source_client, run_locals, find_locals>>

YamlValidations ==
    /\ pc = "yaml_validations"
    /\ IF "validations" \in DOMAIN yaml_configs THEN pc' = "yaml_loop" ELSE Raise
    /\ UNCHANGED <<world, conn_locals, client_locals, run_locals, find_locals>>

\* One iteration of the loop over the validation blocks.
YamlBuildConfig ==
    /\ pc = "yaml_loop"
    /\ Len(config_managers) < Len(yaml_configs.validations)
    /\ IF yaml_block_ok(yaml_configs)
       THEN /\ config_managers' = Append(config_managers,
                    yaml_config_manager(yaml_configs,
                        yaml_configs.validations[Len(config_managers) + 1],
                        source_conn, target_conn, source_client, target_client,
                        args.verbose))
            /\ UNCHANGED pc
       ELSE Raise /\ UNCHANGED config_managers
    /\ UNCHANGED <<world, conn_locals, client_locals, yaml_configs, executed,
                   find_locals>>

\* main(): the list is built; execute it.
YamlReturn ==
    /\ pc = "yaml_loop"
    /\ Len(config_managers) = Len(yaml_configs.validations)
    /\ pc' = "run_validations"
    /\ UNCHANGED <<world, conn_locals, client_locals, run_locals, find_locals>>

\* ---- run_connections
RunConnections ==
    /\ pc = "connections"
    /\ pc' = CASE args.connect_cmd = "list" -> "done"
               [] args.connect_cmd = "add" -> "conn_config"
               [] OTHER -> "error"
    /\ UNCHANGED <<world, conn_locals, client_locals, run_locals, find_locals>>

\* cli_tools.get_connection_config_from_args(args)
get_connection_config_from_args_ok(a) == a.connection_kind # ""
get_connection_config_from_args(a) == Descriptor(a.connection_name, a.connection_kind)

ConnConfig ==
    /\ pc = "conn_config"
    /\ IF get_connection_config_from_args_ok(args)
       THEN conn' = get_connection_config_from_args(args) /\ pc' = "conn_client"
       ELSE Raise /\ UNCHANGED conn
    /\ UNCHANGED <<world, source_conn, target_conn, result_handler_config,
                   client_locals, run_locals, find_locals>>

\* Mutant: a failed acquisition is ignored and the descriptor stored anyway.
ConnClientIgnoringFailure ==
    /\ pc = "conn_client"
    /\ \/ clients' = Append(clients, Acquire(conn)) /\ pc' = "conn_store"
       \/ pc' = "conn_store" /\ UNCHANGED clients
    /\ UNCHANGED <<world, conn_locals, source_client, target_client, run_locals,
                   find_locals>>

\* Test getting a client to validate connection details.
ConnClient ==
    /\ pc = "conn_client"
    /\ \/ clients' = Append(clients, Acquire(conn)) /\ pc' = "conn_store"
       \/ Raise /\ UNCHANGED clients
    /\ UNCHANGED <<world, conn_locals, source_client, target_client, run_locals,
                   find_locals>>

\* cli_tools.store_connection(name, conn): writes the descriptor, or fails
\* and leaves the store as it was.
ConnStore ==
    /\ pc = "conn_store"
    /\ \/ store' = DictSet(store, args.connection_name, conn) /\ pc' = "done"
       \/ Raise /\ UNCHANGED store
    /\ UNCHANGED <<args, yaml_file, catalog, encoded, conn_locals, client_locals,
                   run_locals, find_locals>>

\* ---- find_tables_using_string_matching
FindSourceConn ==
    /\ pc = "find_source_conn"
    /\ IF get_connection_ok(store, args.source_conn)
       THEN /\ source_conn' = get_connection(store, args.source_conn)
            /\ pc' = "find_target_conn"
       ELSE Raise /\ UNCHANGED source_conn
    /\ UNCHANGED <<world, conn, target_conn, result_handler_config,
                   client_locals, run_locals, find_locals>>

FindTargetConn ==
    /\ pc = "find_target_conn"
    /\ IF get_connection_ok(store, args.target_conn)
       THEN /\ target_conn' = get_connection(store, args.target_conn)
            /\ pc' = "find_source_client"
       ELSE Raise /\ UNCHANGED target_conn
    /\ UNCHANGED <<world, conn, source_conn, result_handler_config,
                   client_locals, run_locals, find_locals>>

FindSourceClient ==
    /\ pc = "find_source_client"
    /\ \/ /\ source_client' = Acquire(source_conn)
          /\ clients' = Append(clients, Acquire(source_conn))
          /\ pc' = "find_target_client"
       \/ Raise /\ UNCHANGED <<clients, source_client>>
    /\ UNCHANGED <<world, conn_locals, target_client, run_locals, find_locals>>

FindTargetClient ==
    /\ pc = "find_target_client"
    /\ \/ /\ target_client' = Acquire(target_conn)
          /\ clients' = Append(clients, Acquire(target_conn))
          /\ pc' = "find_source_map"
       \/ Raise /\ UNCHANGED <<clients, target_client>>
    /\ UNCHANGED <<world, conn_locals, source_client, run_locals, find_locals>>

\* The catalog a client lists is the one of the connection it was made from.
client_catalog(client) == catalog[client.conn.conn_id]

FindSourceMap ==
    /\ pc = "find_source_map"
    /\ source_table_map' = get_all_tables_from_client(client_catalog(source_client))
    /\ pc' = "find_target_map"
    /\ UNCHANGED <<world, conn_locals, client_locals, run_locals,
                   target_table_map, table_configs, matched>>

FindTargetMap ==
    /\ pc = "find_target_map"
    /\ target_table_map' = get_all_tables_from_client(client_catalog(target_client))
    /\ pc' = "find_compare"
    /\ UNCHANGED <<world, conn_locals, client_locals, run_locals,
                   source_table_map, table_configs, matched>>

\* _compare_match_tables, then json.dumps and print.
FindCompare ==
    /\ pc = "find_compare"
    /\ LET res == compare_match_tables(source_table_map, target_table_map) IN
       IF res.raised
       THEN Raise /\ UNCHANGED <<table_configs, matched>>
       ELSE /\ table_configs' = res.table_configs
            /\ matched' = res.matched
            /\ pc' = "done"
    /\ UNCHANGED <<world, conn_locals, client_locals, run_locals,
                   source_table_map, target_table_map>>

\* ---- the next invocation
\* After `run --config-file f` has written the file, `run-config
\* --config-file f` is invoked: a new process, over the same store and file.
Reinvoke ==
    /\ pc = "done"
    /\ args.command = "run"
    /\ args.config_file # ""
    /\ args' = [DefaultArgs EXCEPT !.command = "run-config",
                                   !.config_file = args.config_file]
    /\ pc' = "main"
    /\ clients' = <<>>
    /\ source_conn' = NoConn
    /\ target_conn' = NoConn
    /\ result_handler_config' = "None"
    /\ source_client' = NoClient
    /\ target_client' = NoClient
    /\ config_managers' = <<>>
    /\ UNCHANGED <<store, yaml_file, catalog, encoded, conn, yaml_configs,
                   executed, find_locals>>

Next ==
    \/ Main
    \/ ArgsSourceConn
    \/ ArgsTargetConn
    \/ ArgsResultHandler
    \/ ArgsSourceClient
    \/ ArgsTargetClient
    \/ ArgsTablesList
    \/ ArgsBuildConfig
    \/ ArgsReturn
    \/ StoreYamlConfigFile
    \/ RunValidation
    \/ RunValidationsReturn
    \/ YamlConfigFile
    \/ YamlLoad
    \/ YamlSourceConn
    \/ YamlTargetConn
    \/ YamlSourceClient
    \/ YamlTargetClient
    \/ YamlValidations
    \/ YamlBuildConfig
    \/ YamlReturn
    \/ RunConnections
    \/ ConnConfig
    \/ ConnClient
    \/ ConnStore
    \/ FindSourceConn
    \/ FindTargetConn
    \/ FindSourceClient
    \/ FindTargetClient
    \/ FindSourceMap
    \/ FindTargetMap
    \/ FindCompare
    \/ Reinvoke

Spec == Init /\ [][Next]_vars

\* ========================================================== properties
FindDone == args.command = "find-tables" /\ pc = "done"

source_catalog == catalog[args.source_conn]
target_catalog == catalog[args.target_conn]

\* The cutoffs a caller of the Table Matcher may ask for, in percent.
Cutoffs == {0, 50, 90}

\* C1: for every cutoff c, a TableMatch is emitted for a source key only if
\* its best target key has similarity >= c (a source key without such a
\* target is omitted).
C1_MatchesClearCutoff ==
    FindDone =>
        \A c \in Cutoffs : \A i \in DOMAIN matched :
            Score(matched[i][1], matched[i][2]) >= c

\* Every database name of the catalog differs from every table name.
NamesDiffer(cat) ==
    \A p \in Range(CatalogPairs(cat)), q \in Range(CatalogPairs(cat)) : p[1] # q[2]

\* C2: every emitted TableMatch names, on the target side, a (database,
\* table) pair of the target catalog and, on the source side, the (database,
\* table) pair of the matched source key, for catalogs in which schema names
\* and table names differ.
C2_NoFabricatedIdentifier ==
    (FindDone /\ NamesDiffer(source_catalog) /\ NamesDiffer(target_catalog)) =>
        \A i \in DOMAIN table_configs :
            /\ <<table_configs[i].target_schema_name,
                 table_configs[i].target_table_name>>
                   \in Range(CatalogPairs(target_catalog))
            /\ table_obj(table_configs[i].schema_name, table_configs[i].table_name)
                   = MapGet(source_table_map, matched[i][1])

\* C3 as stated: every config manager built on either path carries at least
\* one aggregate.
C3_EveryConfigHasAggregate ==
    \A i \in DOMAIN config_managers : Len(aggregates(config_managers[i])) >= 1

\* The aggregate list of a validation block, empty when it has none.
block_aggregates(block) ==
    IF "aggregates" \in DOMAIN block THEN block.aggregates ELSE <<>>

\* C3 amended: on the argument path every config manager carries at least
\* one aggregate; on the YAML path a config manager carries exactly the
\* aggregates of its validation block, hence at least one whenever the
\* block lists one, as every block written from argument-path config
\* managers does.
C3_AggregatePresentUnlessBlockEmpty ==
    /\ args.command = "run" =>
          \A i \in DOMAIN config_managers :
              /\ Len(aggregates(config_managers[i])) >= 1
              /\ aggregates(config_managers[i])[1] = build_config_count_aggregate
    /\ args.command = "run-config" =>
          \A i \in DOMAIN config_managers :
              /\ aggregates(config_managers[i])
                    = block_aggregates(yaml_configs.validations[i])
              /\ encoded # <<>> => Len(aggregates(config_managers[i])) >= 1

\* The YAML path has rebuilt config managers that the argument path built
\* with the default count alone.
C3_Witness ==
    /\ args.command = "run-config"
    /\ encoded # <<>>
    /\ Len(config_managers) = Len(encoded)
    /\ \E i \in DOMAIN encoded : Len(aggregates(encoded[i])) = 1

\* C4: with --count "*" and no --sum, every config manager of the run has
\* exactly one aggregate, the whole-table count.
C4_StarCountIsOneSpec ==
    (args.command = "run" /\ args.count = Star /\ args.sum = None) =>
        \A i \in DOMAIN config_managers :
            aggregates(config_managers[i]) = <<build_config_count_aggregate>>

\* The list the current path assembles config managers from.
todo_list ==
    IF args.command = "run" THEN json_loads(args.tables_list)
    ELSE IF "validations" \in DOMAIN yaml_configs THEN yaml_configs.validations
    ELSE <<>>

\* The i-th config manager is the one of the i-th table of the request list
\* (argument path) or of the i-th block of the document (YAML path).
AssembledInListOrder ==
    /\ Len(config_managers) <= Len(todo_list)
    /\ \A i \in DOMAIN config_managers :
          /\ config_managers[i].config.schema_name = todo_list[i].schema_name
          /\ config_managers[i].config.table_name = todo_list[i].table_name

ExecutedIsPrefix ==
    /\ Len(executed) <= Len(config_managers)
    /\ \A i \in DOMAIN executed : executed[i] = config_managers[i]

\* C5: the config managers handed to the engine are, at every point, a
\* prefix of the assembled list, which is in request-list or document order;
\* each step hands over the next one of the list, once, and after a raise
\* nothing more is handed over.
C5_ExecutedInOrderFailFast ==
    /\ [](ExecutedIsPrefix /\ AssembledInListOrder)
    /\ [][/\ pc = "error" => executed' = executed
          /\ executed' # executed =>
                executed' = Append(executed, config_managers[Len(executed) + 1])]_vars

\* The first of two different config managers raised; the second is not run.
C5_Witness ==
    /\ pc = "error"
    /\ Len(executed) = 1
    /\ Len(config_managers) = 2
    /\ config_managers[1] # config_managers[2]

\* C6: a config manager is handed to the engine only after every config
\* manager of the run has been assembled; if the assembly fails, none is.
C6_NoExecutionBeforeAssembly ==
    executed # <<>> =>
        /\ pc \in {"run_validations", "done", "error"}
        /\ Len(config_managers) = Len(todo_list)

\* Building the config manager of the second table failed.
C6_Witness ==
    /\ args.command = "run"
    /\ pc = "error"
    /\ Len(config_managers) = 1
    /\ Len(todo_list) = 2
    /\ executed = <<>>

OneEntryPerTable(table_map, cat) ==
    /\ Len(table_map) = Len(CatalogPairs(cat))
    /\ \A p \in Range(CatalogPairs(cat)) :
          \E i \in DOMAIN table_map : table_map[i].obj = table_obj(p[1], p[2])

\* C7: the enumerated map has one entry per (database, table) pair of the
\* catalog (D x T entries, all keys distinct), whatever the names.
C7_OneEntryPerTable ==
    (args.command = "find-tables" /\ pc \in {"find_compare", "done"}) =>
        /\ OneEntryPerTable(source_table_map, source_catalog)
        /\ OneEntryPerTable(target_table_map, target_catalog)

\* C8: the store changes only in the store step of `connections add`, after
\* a client has been acquired from the descriptor, and then holds exactly
\* that descriptor under the given name.
C8_StoreOnlyAfterClient ==
    [][store' # store =>
          /\ args.command = "connections"
          /\ args.connect_cmd = "add"
          /\ pc = "conn_store"
          /\ \E i \in DOMAIN clients : clients[i].conn = conn
          /\ conn = get_connection_config_from_args(args)
          /\ store' = DictSet(store, args.connection_name, conn)]_vars

\* An add has stored the descriptor after acquiring a client from it.
C8_Witness ==
    /\ args.command = "connections"
    /\ pc = "done"
    /\ args.connection_name \in DOMAIN store
    /\ store[args.connection_name] = conn
    /\ Len(clients) = 1

\* The YAML path has built its whole list from a file written by the
\* argument path.
Decoded ==
    /\ args.command = "run-config"
    /\ encoded # <<>>
    /\ pc \in {"run_validations", "done"}

\* The decoded list equals the encoded one in length and order, validation
\* type, number of aggregates and connections.
DecodedMatchesEncoded ==
    Decoded =>
        /\ Len(config_managers) = Len(encoded)
        /\ \A i \in DOMAIN encoded :
              /\ config_managers[i].config.type = encoded[i].config.type
              /\ config_managers[i].config.table_name = encoded[i].config.table_name
              /\ Len(aggregates(config_managers[i])) = Len(aggregates(encoded[i]))
              /\ config_managers[i].config.source_conn = encoded[i].config.source_conn
              /\ config_managers[i].config.target_conn = encoded[i].config.target_conn

\* A written document carries source, target and result handler once, at
\* the top, as the first config manager has them.
DocumentShape ==
    encoded # <<>> =>
        /\ yaml_file.kind = "doc"
        /\ DOMAIN yaml_file.doc = {"source", "target", "result_handler", "validations"}
        /\ get_connection(store, yaml_file.doc.source) = encoded[1].config.source_conn
        /\ get_connection(store, yaml_file.doc.target) = encoded[1].config.target_conn
        /\ yaml_file.doc.result_handler = encoded[1].config.result_handler
        /\ \A i \in DOMAIN yaml_file.doc.validations :
              DOMAIN yaml_file.doc.validations[i]
                \cap {"source", "target", "result_handler", "source_conn", "target_conn"} = {}

\* C9 as stated: any list assembled on the argument path is encoded, and
\* decoding yields it back.
C9_RoundTripAnyList ==
    /\ [](DecodedMatchesEncoded /\ DocumentShape)
    /\ [][pc = "store_yaml" =>
             /\ pc' = "done"
             /\ Len(yaml_file'.doc.validations) = Len(config_managers)]_vars

\* C9 amended: the same for any non-empty list (N >= 1).
C9_RoundTripNonEmptyList ==
    /\ [](DecodedMatchesEncoded /\ DocumentShape)
    /\ [][(pc = "store_yaml" /\ Len(config_managers) >= 1) =>
             /\ pc' = "done"
             /\ Len(yaml_file'.doc.validations) = Len(config_managers)]_vars

\* Two different config managers over two connections were encoded and
\* decoded.
C9_Witness ==
    /\ Decoded
    /\ Len(config_managers) = 2
    /\ config_managers[1] # config_managers[2]
    /\ config_managers[1].config.source_conn # config_managers[1].config.target_conn

Assembling == args.command \in {"run", "run-config"}

\* C10 as stated: no connection has two clients acquired from it in a run.
C10_OneClientPerConnection ==
    Assembling =>
        \A i \in DOMAIN clients, j \in DOMAIN clients :
            i # j => clients[i].conn # clients[j].conn

\* C10 amended: a run acquires one client for the source side and one for
\* the target side, two in all whatever the number of tables or blocks (two
\* from the same connection when both sides reference it), none of them in
\* the loop; every config manager holds these two clients and the two
\* resolved descriptors.
C10_OneClientPerSide ==
    Assembling =>
        /\ Len(clients) <= 2
        /\ pc \in {"args_loop", "yaml_loop", "store_yaml", "run_validations", "done"} =>
              /\ Len(clients) = 2
              /\ clients[1] = source_client /\ source_client.conn = source_conn
              /\ clients[2] = target_client /\ target_client.conn = target_conn
        /\ \A i \in DOMAIN config_managers :
              /\ config_managers[i].source_client = source_client
              /\ config_managers[i].target_client = target_client
              /\ config_managers[i].config.source_conn = source_conn
              /\ config_managers[i].config.target_conn = target_conn

\* Two tables were assembled with one connection on both sides.
C10_Witness ==
    /\ args.command = "run"
    /\ pc = "args_loop"
    /\ Len(config_managers) = 2
    /\ Len(clients) = 2
    /\ clients[1].conn = clients[2].conn

====
